---- MODULE Spec2Model ----
(***************************************************************************)
(* Flask message board (app/app.py, app/config.py, app/gunicorn.conf.py).  *)
(*                                                                         *)
(* The model covers module start-up (configuration validation, client      *)
(* initialisation, socket bind), the four routes and the two error         *)
(* handlers, the connection accessor with its retry loop, the              *)
(* after_request header hook, and the sync worker timeout of the process   *)
(* manager.  Each worker handles one request at a time; the database       *)
(* statements of different workers interleave.                             *)
(*                                                                         *)
(* Text is kept run-length encoded: a string is a sequence of runs         *)
(* [ch, n], n copies of the character ch.                                  *)
(***************************************************************************)
EXTENDS Integers, Sequences, FiniteSets, TLC

VARIABLES
    environ,      \* os.environ: the four MYSQL_* settings
    flask_env,    \* os.environ.get('FLASK_ENV')
    proc,         \* position of the module start-up code
    exitCode,     \* status passed to sys.exit, -1 while running
    appConfig,    \* app.config, the class chosen by get_config
    mysqlInit,    \* MySQL(app) has run
    socketOpen,   \* the listening socket is bound
    dbUp,         \* the store accepts connections and statements
    clock,        \* wall clock, whole seconds
    messages,     \* table messages, in commit order
    pc,           \* per worker: position inside the current request
    req,          \* per worker: the request being handled
    data,         \* per worker: local `data` of add_message
    attempt,      \* per worker: loop variable of get_db_connection
    retry_delay,  \* per worker: local of get_db_connection
    sleeps,       \* per worker: arguments of time.sleep, in order
    warnings,     \* per worker: logger.warning calls of get_db_connection
    acquired,     \* per worker: evaluations of mysql.connection
    elapsed,      \* per worker: seconds since the worker last notified
    fault,        \* per worker: the step that raised, "" if none
    pending,      \* per worker: rows inserted but not committed
    added,        \* per worker: ids of the rows this request committed
    resp          \* per worker: the response handed to the server

vars == <<environ, flask_env, proc, exitCode, appConfig, mysqlInit, socketOpen,
          dbUp, clock, messages, pc, req, data, attempt, retry_delay, sleeps,
          warnings, acquired, elapsed, fault, pending, added, resp>>

startupVars == <<environ, flask_env, proc, exitCode, appConfig, mysqlInit, socketOpen>>
storeVars   == <<dbUp, clock, messages>>
connVars    == <<attempt, retry_delay, sleeps, warnings, acquired, elapsed>>
workerVars  == <<pc, req, data, attempt, retry_delay, sleeps, warnings, acquired,
                 elapsed, fault, pending, added, resp>>

----------------------------------------------------------------------------
(* Bounds of the model *)

MaxRows == 2            \* rows the table may hold
MaxClock == 1           \* last second of the wall clock
AttemptCost == 1        \* seconds a failed connection attempt takes

Workers == {"w1", "w2"}

----------------------------------------------------------------------------
(* Text *)

None == "<None>"

Run(c, n) == [ch |-> c, n |-> n]

IsSpace(c) == c \in {" ", "\t", "\n"}

RECURSIVE TextLen(_)
TextLen(s) == IF s = <<>> THEN 0 ELSE Head(s).n + TextLen(Tail(s))

RECURSIVE lstrip(_)
lstrip(s) ==
    IF s = <<>> THEN <<>>
    ELSE IF IsSpace(Head(s).ch) THEN lstrip(Tail(s)) ELSE s

RECURSIVE rstrip(_)
rstrip(s) ==
    IF s = <<>> THEN <<>>
    ELSE IF IsSpace(s[Len(s)].ch) THEN rstrip(SubSeq(s, 1, Len(s) - 1)) ELSE s

strip(s) == rstrip(lstrip(s))

\* A form: the field new_message is present with a value, or absent.
Field(v) == [present |-> TRUE, value |-> v]
NoField == [present |-> FALSE, value |-> <<>>]

\* request.form.get('new_message', '')
FormGet(form) == IF form.present THEN form.value ELSE <<>>

\* The values of new_message a client may send.
RawTexts ==
    { <<>>,
      <<Run(" ", 3)>>,
      <<Run("\t", 1), Run("\n", 2)>>,
      <<Run("\n", 1), Run("a", 499), Run(" ", 1), Run("b", 500), Run("\t", 2)>>,
      <<Run("a", 1001)>>,
      <<Run(" ", 2), Run("a", 500), Run(" ", 1), Run("b", 500), Run(" ", 1)>> }

RawInputs == {NoField} \cup {Field(v) : v \in RawTexts}

----------------------------------------------------------------------------
(* config.py *)

Required == <<"MYSQL_HOST", "MYSQL_USER", "MYSQL_PASSWORD", "MYSQL_DB">>

RequiredNames == {Required[i] : i \in 1..Len(Required)}

\* Values an environment variable may have: unset, empty, or a value.
EnvValues == {None, "", "db"}

\* Python truthiness of an Optional[str]
Truthy(v) == v # None /\ v # ""

\* class Config: the attributes read from the environment
Config(e) ==
    [ MYSQL_HOST     |-> e["MYSQL_HOST"],
      MYSQL_USER     |-> e["MYSQL_USER"],
      MYSQL_PASSWORD |-> e["MYSQL_PASSWORD"],
      MYSQL_DB       |-> e["MYSQL_DB"],
      DEBUG          |-> FALSE,
      LOG_LEVEL      |-> "INFO",
      TESTING        |-> FALSE ]

DevelopmentConfig(e) == [Config(e) EXCEPT !.DEBUG = TRUE, !.LOG_LEVEL = "DEBUG"]

ProductionConfig(e) == [Config(e) EXCEPT !.DEBUG = FALSE, !.LOG_LEVEL = "INFO"]

TestingConfig(e) == [Config(e) EXCEPT !.TESTING = TRUE, !.MYSQL_DB = "test_flask_app"]

\* config_by_name.get(env, config_by_name['default'])
get_config(name, e) ==
    CASE name = "development" -> DevelopmentConfig(e)
      [] name = "production"  -> ProductionConfig(e)
      [] name = "testing"     -> TestingConfig(e)
      [] OTHER                -> ProductionConfig(e)

\* validate_config with `value is None` in place of `not value`
validate_config_isnone(e) ==
    LET missing_vars == SelectSeq(Required, LAMBDA var : Config(e)[var] = None)
    IN  [is_valid |-> missing_vars = <<>>, missing_vars |-> missing_vars]

\* Config.validate_config: reads the attributes of the base class Config
validate_config(e) ==
    LET missing_vars == SelectSeq(Required, LAMBDA var : ~Truthy(Config(e)[var]))
    IN  [is_valid |-> missing_vars = <<>>, missing_vars |-> missing_vars]

----------------------------------------------------------------------------
(* app.py, module level: start-up *)

NoConfig == [Config([k \in RequiredNames |-> None]) EXCEPT !.LOG_LEVEL = ""]

\* env = os.environ.get('FLASK_ENV', 'production'); app.config.from_object(get_config(env))
LoadConfig ==
    /\ proc = "load_config"
    /\ appConfig' = get_config(IF flask_env = None THEN "production" ELSE flask_env, environ)
    /\ proc' = "validate"
    /\ UNCHANGED <<environ, flask_env, exitCode, mysqlInit, socketOpen>>
    /\ UNCHANGED <<storeVars, workerVars>>

\* is_valid, error_msg = Config.validate_config(); if not is_valid: sys.exit(1)
ValidateConfig ==
    /\ proc = "validate"
    /\ IF validate_config(environ).is_valid
         THEN proc' = "init_mysql" /\ UNCHANGED exitCode
         ELSE proc' = "exited" /\ exitCode' = 1
    /\ UNCHANGED <<environ, flask_env, appConfig, mysqlInit, socketOpen>>
    /\ UNCHANGED <<storeVars, workerVars>>

\* mysql = MySQL(app); CORS(app, ...)
InitMySQL ==
    /\ proc = "init_mysql"
    /\ mysqlInit' = TRUE
    /\ proc' = "bind"
    /\ UNCHANGED <<environ, flask_env, exitCode, appConfig, socketOpen>>
    /\ UNCHANGED <<storeVars, workerVars>>

\* the server binds 0.0.0.0:PORT once the module is loaded
Bind ==
    /\ proc = "bind"
    /\ socketOpen' = TRUE
    /\ proc' = "serving"
    /\ UNCHANGED <<environ, flask_env, exitCode, appConfig, mysqlInit>>
    /\ UNCHANGED <<storeVars, workerVars>>

----------------------------------------------------------------------------
(* Responses *)

\* jsonify(payload), status
jsonify(payload, status) ==
    [ status  |-> status,
      body    |-> payload,
      headers |-> ("Content-Type" :> "application/json") ]

\* render_template(name, ...), status
render_template(name, context, status) ==
    [ status  |-> status,
      body    |-> [template |-> name, context |-> context],
      headers |-> ("Content-Type" :> "text/html") ]

NoResponse == [status |-> 0, body |-> [none |-> TRUE], headers |-> ("-" :> "-")]

ContentSecurityPolicy == "default-src 'self'; script-src 'self' 'unsafe-inline' https://code.jquery.com; style-src 'self' 'unsafe-inline'; img-src 'self' data:; font-src 'self'; connect-src 'self';"

\* add_security_headers that leaves error responses alone
add_security_headers_okonly(response) ==
    IF response.status >= 400 THEN response
    ELSE [response EXCEPT !.headers =
            ("X-Content-Type-Options" :> "nosniff") @@ ("X-Frame-Options" :> "DENY")
            @@ ("X-XSS-Protection" :> "1; mode=block")
            @@ ("Strict-Transport-Security" :> "max-age=31536000; includeSubDomains")
            @@ ("Content-Security-Policy" :> ContentSecurityPolicy) @@ @]

\* @app.after_request add_security_headers
add_security_headers(response) ==
    [response EXCEPT !.headers =
        ("X-Content-Type-Options" :> "nosniff") @@ ("X-Frame-Options" :> "DENY")
        @@ ("X-XSS-Protection" :> "1; mode=block")
        @@ ("Strict-Transport-Security" :> "max-age=31536000; includeSubDomains")
        @@ ("Content-Security-Policy" :> ContentSecurityPolicy) @@ @]

----------------------------------------------------------------------------
(* Requests and routing *)

Request(m, p, f) == [method |-> m, path |-> p, form |-> f]

NoRequest == Request("", "", NoField)

Requests ==
    { Request("GET", "/health", NoField),
      Request("GET", "/ready", NoField),
      Request("GET", "/", NoField),
      Request("GET", "/missing", NoField),
      Request("GET", "/api/message", NoField) }
    \cup { Request("POST", "/api/message", f) : f \in RawInputs }

\* the url map built by the @app.route decorators
match_route(r) ==
    CASE r.path = "/health"      -> IF r.method = "GET" THEN "health_check" ELSE "MethodNotAllowed"
      [] r.path = "/ready"       -> IF r.method = "GET" THEN "readiness_check" ELSE "MethodNotAllowed"
      [] r.path = "/"            -> IF r.method = "GET" THEN "home" ELSE "MethodNotAllowed"
      [] r.path = "/api/message" -> IF r.method = "POST" THEN "add_message" ELSE "MethodNotAllowed"
      [] OTHER                   -> "NotFound"

----------------------------------------------------------------------------
(* The store *)

Row(i, m, t) == [id |-> i, message |-> m, created_at |-> t]

\* a commit that replaces the table by the new rows
InsertRows_replace(table, rows) ==
    [i \in 1..Len(rows) |-> [rows[i] EXCEPT !.id = i]]

\* the rows of a request become visible at conn.commit(), in commit order
InsertRows(table, rows) ==
    table \o [i \in 1..Len(rows) |-> [rows[i] EXCEPT !.id = Len(table) + i]]

Injective(p) == \A i, j \in DOMAIN p : p[i] = p[j] => i = j

\* ORDER BY created_at ASC
OrderByCreatedAtAsc(table) ==
    LET n == Len(table)
    IN  { [i \in 1..n |-> table[p[i]]] :
            p \in { q \in [1..n -> 1..n] :
                      /\ Injective(q)
                      /\ \A i \in 1..n, j \in 1..n :
                            i < j => table[q[i]].created_at <= table[q[j]].created_at } }

\* SELECT ... ORDER BY created_at DESC: every order of the rows the clause
\* allows; rows with equal created_at come in an order the store chooses
OrderByCreatedAtDesc(table) ==
    LET n == Len(table)
    IN  { [i \in 1..n |-> table[p[i]]] :
            p \in { q \in [1..n -> 1..n] :
                      /\ Injective(q)
                      /\ \A i \in 1..n, j \in 1..n :
                            i < j => table[q[i]].created_at >= table[q[j]].created_at } }

\* the value the store gives created_at when an INSERT statement runs
CurrentTimestamp == clock

----------------------------------------------------------------------------
(* gunicorn.conf.py *)

timeout == 30

(* get_db_connection *)

max_retries == 5

InitialRetryDelay == 2

\* linear backoff in place of doubling
NextDelay_linear(d) == d + 2

\* retry_delay *= 2
NextDelay(d) == d * 2

----------------------------------------------------------------------------
(* Request handling, one worker *)

InRequest(w) == pc[w] \in {"dispatch", "connect", "execute", "commit"}

Route(w) == match_route(req[w])

\* the view's return value passes through after_request
Respond(w, response) ==
    /\ pc' = [pc EXCEPT ![w] = "responded"]
    /\ resp' = [resp EXCEPT ![w] = add_security_headers(response)]

PostsInFlight == Cardinality({w \in Workers : InRequest(w) /\ Route(w) = "add_message"})

\* the sync worker accepts the next request
Accept(w, r) ==
    /\ proc = "serving"
    /\ socketOpen
    /\ pc[w] = "idle"
    /\ match_route(r) = "add_message" => Len(messages) + PostsInFlight < MaxRows
    /\ pc' = [pc EXCEPT ![w] = "dispatch"]
    /\ req' = [req EXCEPT ![w] = r]
    /\ UNCHANGED <<startupVars, storeVars, data, connVars, fault, pending, added, resp>>

\* every view answering a failure with the generic 500
on_exception_500(route, e) ==
    jsonify([error |-> "Failed to save message. Please try again."], 500)

\* except Exception as e: of the three views that use the store
on_exception(route, e) ==
    CASE route = "readiness_check" ->
            jsonify([status |-> "not_ready", service |-> "Flask Message Board",
                     database |-> "disconnected", error |-> e, timestamp |-> clock], 503)
      [] route = "home" ->
            render_template("error.html",
                [error_message |-> "Unable to load messages. Please try again later."], 500)
      [] route = "add_message" ->
            jsonify([error |-> "Failed to save message. Please try again."], 500)

\* a health check that reports the state of the store
health_check_store(w) ==
    /\ pc[w] = "dispatch"
    /\ Route(w) = "health_check"
    /\ Respond(w, jsonify([status |-> IF dbUp THEN "healthy" ELSE "unhealthy",
                           service |-> "Flask Message Board",
                           version |-> "1.0.0", timestamp |-> clock],
                          IF dbUp THEN 200 ELSE 503))
    /\ UNCHANGED <<startupVars, storeVars, req, data, connVars, fault, pending, added>>

\* GET /health
health_check(w) ==
    /\ pc[w] = "dispatch"
    /\ Route(w) = "health_check"
    /\ Respond(w, jsonify([status |-> "healthy", service |-> "Flask Message Board",
                           version |-> "1.0.0", timestamp |-> clock], 200))
    /\ UNCHANGED <<startupVars, storeVars, req, data, connVars, fault, pending, added>>

\* @app.errorhandler(404)
not_found(w) ==
    /\ pc[w] = "dispatch"
    /\ Route(w) = "NotFound"
    /\ Respond(w, jsonify([error |-> "Resource not found"], 404))
    /\ UNCHANGED <<startupVars, storeVars, req, data, connVars, fault, pending, added>>

\* @app.errorhandler(Exception): no view catches the routing exception
\* MethodNotAllowed, and no handler is registered for its code
handle_exception(w) ==
    /\ pc[w] = "dispatch"
    /\ Route(w) = "MethodNotAllowed"
    /\ Respond(w, jsonify([error |-> "An unexpected error occurred"], 500))
    /\ UNCHANGED <<startupVars, storeVars, req, data, connVars, fault, pending, added>>

\* the form value taken without .strip()
message_of_nostrip(form) == FormGet(form)

\* data = request.form.get('new_message', '').strip()
message_of(form) == strip(FormGet(form))

\* the length test off by one
is_too_long_1001(d) == TextLen(d) > 1001

\* if len(data) > 1000
is_too_long(d) == TextLen(d) > 1000

\* POST /api/message, up to the call of get_db_connection
add_message_validate(w) ==
    /\ pc[w] = "dispatch"
    /\ Route(w) = "add_message"
    /\ LET d == message_of(req[w].form)
       IN  /\ data' = [data EXCEPT ![w] = d]
           /\ IF TextLen(d) = 0
                THEN Respond(w, jsonify([error |-> "Message cannot be empty"], 400))
                ELSE IF is_too_long(d)
                THEN Respond(w, jsonify([error |-> "Message too long (max 1000 characters)"], 400))
                ELSE /\ pc' = [pc EXCEPT ![w] = "connect"]
                     /\ UNCHANGED resp
    /\ UNCHANGED <<startupVars, storeVars, req, connVars, fault, pending, added>>

\* get_db_connection: one pass of the loop body, the sleep included
get_db_connection(w) ==
    /\ \/ pc[w] = "connect"
       \/ pc[w] = "dispatch" /\ Route(w) \in {"readiness_check", "home"}
    /\ attempt[w] < max_retries
    /\ acquired' = [acquired EXCEPT ![w] = @ + 1]
    /\ IF dbUp
         THEN \* return mysql.connection
              /\ pc' = [pc EXCEPT ![w] = "execute"]
              /\ UNCHANGED <<attempt, retry_delay, sleeps, warnings, elapsed, fault, resp>>
         ELSE LET cost == AttemptCost IN
              IF attempt[w] < max_retries - 1
              THEN /\ warnings' = [warnings EXCEPT ![w] = @ + 1]
                   /\ sleeps' = [sleeps EXCEPT ![w] = Append(@, retry_delay[w])]
                   /\ elapsed' = [elapsed EXCEPT ![w] = @ + cost + retry_delay[w]]
                   /\ retry_delay' = [retry_delay EXCEPT ![w] = NextDelay(@)]
                   /\ attempt' = [attempt EXCEPT ![w] = @ + 1]
                   /\ pc' = [pc EXCEPT ![w] = "connect"]
                   /\ UNCHANGED <<fault, resp>>
              ELSE \* raise, caught by the view
                   /\ elapsed' = [elapsed EXCEPT ![w] = @ + cost]
                   /\ fault' = [fault EXCEPT ![w] = "connect"]
                   /\ Respond(w, on_exception(Route(w), "connect"))
                   /\ UNCHANGED <<attempt, retry_delay, sleeps, warnings>>
    /\ UNCHANGED <<startupVars, storeVars, req, data, pending, added>>

\* GET /ready, after get_db_connection returned
readiness_check(w) ==
    /\ pc[w] = "execute"
    /\ Route(w) = "readiness_check"
    /\ IF dbUp
         THEN /\ Respond(w, jsonify([status |-> "ready", service |-> "Flask Message Board",
                                     database |-> "connected", timestamp |-> clock], 200))
              /\ UNCHANGED fault
         ELSE /\ fault' = [fault EXCEPT ![w] = "execute"]
              /\ Respond(w, on_exception("readiness_check", "execute"))
    /\ UNCHANGED <<startupVars, storeVars, req, data, connVars, pending, added>>

\* GET /, after get_db_connection returned
home(w) ==
    /\ pc[w] = "execute"
    /\ Route(w) = "home"
    /\ IF dbUp
         THEN /\ \E rows \in OrderByCreatedAtDesc(messages) :
                    Respond(w, render_template("index.html", [messages |-> rows], 200))
              /\ UNCHANGED fault
         ELSE /\ fault' = [fault EXCEPT ![w] = "execute"]
              /\ Respond(w, on_exception("home", "execute"))
    /\ UNCHANGED <<startupVars, storeVars, req, data, connVars, pending, added>>

\* cur.execute("INSERT INTO messages (message) VALUES (%s)", (data,)):
\* the store sets created_at when the statement runs
add_message_insert(w) ==
    /\ pc[w] = "execute"
    /\ Route(w) = "add_message"
    /\ IF dbUp
         THEN /\ pending' = [pending EXCEPT ![w] = Append(@, Row(0, data[w], CurrentTimestamp))]
              /\ pc' = [pc EXCEPT ![w] = "commit"]
              /\ UNCHANGED <<fault, resp>>
         ELSE /\ fault' = [fault EXCEPT ![w] = "execute"]
              /\ Respond(w, on_exception("add_message", "execute"))
              /\ UNCHANGED pending
    /\ UNCHANGED <<startupVars, storeVars, req, data, connVars, added>>

\* conn.commit() and the 201 response
add_message_commit(w) ==
    /\ pc[w] = "commit"
    /\ IF dbUp
         THEN /\ messages' = InsertRows(messages, pending[w])
              /\ added' = [added EXCEPT ![w] =
                              @ \o [i \in 1..Len(pending[w]) |-> Len(messages) + i]]
              /\ pending' = [pending EXCEPT ![w] = <<>>]
              /\ Respond(w, jsonify([message |-> data[w], created_at |-> clock], 201))
              /\ UNCHANGED fault
         ELSE /\ fault' = [fault EXCEPT ![w] = "commit"]
              /\ Respond(w, on_exception("add_message", "commit"))
              /\ UNCHANGED <<messages, added, pending>>
    /\ UNCHANGED <<startupVars, dbUp, clock, req, data, connVars>>

\* the response is written and the worker returns to its accept loop;
\* the app context is torn down and the connection closed
Finish(w) ==
    /\ pc[w] = "responded"
    /\ pc' = [pc EXCEPT ![w] = "idle"]
    /\ req' = [req EXCEPT ![w] = NoRequest]
    /\ data' = [data EXCEPT ![w] = <<>>]
    /\ attempt' = [attempt EXCEPT ![w] = 0]
    /\ retry_delay' = [retry_delay EXCEPT ![w] = InitialRetryDelay]
    /\ sleeps' = [sleeps EXCEPT ![w] = <<>>]
    /\ warnings' = [warnings EXCEPT ![w] = 0]
    /\ acquired' = [acquired EXCEPT ![w] = 0]
    /\ elapsed' = [elapsed EXCEPT ![w] = 0]
    /\ fault' = [fault EXCEPT ![w] = ""]
    /\ pending' = [pending EXCEPT ![w] = <<>>]
    /\ added' = [added EXCEPT ![w] = <<>>]
    /\ resp' = [resp EXCEPT ![w] = NoResponse]
    /\ UNCHANGED <<startupVars, storeVars>>

\* worker_class = 'sync', timeout = 30: the arbiter kills a worker that has
\* been silent for more than `timeout` seconds; its request gets no response
WorkerTimeout(w) ==
    /\ InRequest(w)
    /\ elapsed[w] > timeout
    /\ pc' = [pc EXCEPT ![w] = "killed"]
    /\ pending' = [pending EXCEPT ![w] = <<>>]
    /\ UNCHANGED <<startupVars, storeVars, req, data, connVars, fault, added, resp>>

\* the arbiter starts a replacement worker
Respawn(w) ==
    /\ pc[w] = "killed"
    /\ pc' = [pc EXCEPT ![w] = "idle"]
    /\ req' = [req EXCEPT ![w] = NoRequest]
    /\ data' = [data EXCEPT ![w] = <<>>]
    /\ attempt' = [attempt EXCEPT ![w] = 0]
    /\ retry_delay' = [retry_delay EXCEPT ![w] = InitialRetryDelay]
    /\ sleeps' = [sleeps EXCEPT ![w] = <<>>]
    /\ warnings' = [warnings EXCEPT ![w] = 0]
    /\ acquired' = [acquired EXCEPT ![w] = 0]
    /\ elapsed' = [elapsed EXCEPT ![w] = 0]
    /\ fault' = [fault EXCEPT ![w] = ""]
    /\ added' = [added EXCEPT ![w] = <<>>]
    /\ UNCHANGED <<startupVars, storeVars, pending, resp>>

----------------------------------------------------------------------------
(* The environment of the process *)

\* a second passes
Tick ==
    /\ clock < MaxClock
    /\ clock' = clock + 1
    /\ UNCHANGED <<startupVars, dbUp, messages, workerVars>>

\* the store becomes unreachable
StoreDown ==
    /\ dbUp
    /\ dbUp' = FALSE
    /\ UNCHANGED <<startupVars, clock, messages, workerVars>>

\* the store comes back
StoreUp ==
    /\ ~dbUp
    /\ dbUp' = TRUE
    /\ UNCHANGED <<startupVars, clock, messages, workerVars>>

----------------------------------------------------------------------------
(* Specification *)

FlaskEnvs == {None, "development", "testing", "staging"}

\* every process environment
InitStartup ==
    /\ environ \in [RequiredNames -> EnvValues]
    /\ flask_env \in FlaskEnvs

\* a process environment with the four settings present, default profile
InitConfigured ==
    /\ environ = [k \in RequiredNames |-> "db"]
    /\ flask_env = None

InitRest ==
    /\ proc = "load_config"
    /\ exitCode = -1
    /\ appConfig = NoConfig
    /\ mysqlInit = FALSE
    /\ socketOpen = FALSE
    /\ dbUp \in BOOLEAN
    /\ clock = 0
    /\ messages = <<>>
    /\ pc = [w \in Workers |-> "idle"]
    /\ req = [w \in Workers |-> NoRequest]
    /\ data = [w \in Workers |-> <<>>]
    /\ attempt = [w \in Workers |-> 0]
    /\ retry_delay = [w \in Workers |-> InitialRetryDelay]
    /\ sleeps = [w \in Workers |-> <<>>]
    /\ warnings = [w \in Workers |-> 0]
    /\ acquired = [w \in Workers |-> 0]
    /\ elapsed = [w \in Workers |-> 0]
    /\ fault = [w \in Workers |-> ""]
    /\ pending = [w \in Workers |-> <<>>]
    /\ added = [w \in Workers |-> <<>>]
    /\ resp = [w \in Workers |-> NoResponse]

Next ==
    \/ LoadConfig
    \/ ValidateConfig
    \/ InitMySQL
    \/ Bind
    \/ \E w \in Workers, r \in Requests : Accept(w, r)
    \/ \E w \in Workers : health_check(w)
    \/ \E w \in Workers : not_found(w)
    \/ \E w \in Workers : handle_exception(w)
    \/ \E w \in Workers : add_message_validate(w)
    \/ \E w \in Workers : get_db_connection(w)
    \/ \E w \in Workers : readiness_check(w)
    \/ \E w \in Workers : home(w)
    \/ \E w \in Workers : add_message_insert(w)
    \/ \E w \in Workers : add_message_commit(w)
    \/ \E w \in Workers : Finish(w)
    \/ \E w \in Workers : WorkerTimeout(w)
    \/ \E w \in Workers : Respawn(w)
    \/ Tick
    \/ StoreDown
    \/ StoreUp

Init == InitConfigured /\ InitRest

Spec == Init /\ [][Next]_vars

\* start-up from every environment; the routes that do not use the store
NextStartup ==
    \/ LoadConfig
    \/ ValidateConfig
    \/ InitMySQL
    \/ Bind
    \/ \E w \in Workers, r \in Requests :
            match_route(r) \in {"health_check", "NotFound", "MethodNotAllowed"} /\ Accept(w, r)
    \/ \E w \in Workers : health_check(w)
    \/ \E w \in Workers : not_found(w)
    \/ \E w \in Workers : handle_exception(w)
    \/ \E w \in Workers : Finish(w)

InitAny == InitStartup /\ InitRest

SpecStartup == InitAny /\ [][NextStartup]_vars

----------------------------------------------------------------------------
(* Properties *)

Responded(w) == pc[w] = "responded"

Started(w) == pc[w] \in {"connect", "execute", "commit", "responded", "killed"}

\* the trimmed text of the request's new_message field
Trimmed(w) == strip(FormGet(req[w].form))

ValidPost(w) == Route(w) = "add_message" /\ TextLen(Trimmed(w)) \in 1..1000

InvalidPost(w) ==
    Route(w) = "add_message" /\ (TextLen(Trimmed(w)) = 0 \/ TextLen(Trimmed(w)) > 1000)

PersistedOneTrimmedRow(w) ==
    /\ Len(added[w]) = 1
    /\ messages[added[w][1]].message = Trimmed(w)
    /\ resp[w].body.message = Trimmed(w)

\* C1 as stated: every POST /api/message whose trimmed new_message has 1 to
\* 1000 characters is answered with 201, exactly one row is persisted, its
\* content is the trimmed text, and the body's message is the trimmed text.
C1_Original ==
    \A w \in Workers :
        Responded(w) /\ ValidPost(w) =>
            resp[w].status = 201 /\ PersistedOneTrimmedRow(w)

\* C1 amended: a POST /api/message whose trimmed new_message has 1 to 1000
\* characters is answered with 201 when connection acquisition, the INSERT
\* and the commit all succeed, and then exactly one row is persisted, its
\* content is the trimmed text and the body's message is the trimmed text;
\* when one of these steps fails it is answered with 500, never with 400.
C1_Amended ==
    \A w \in Workers :
        Responded(w) /\ ValidPost(w) =>
            /\ resp[w].status \in {201, 500}
            /\ (resp[w].status = 201) = (fault[w] = "")
            /\ resp[w].status = 201 => PersistedOneTrimmedRow(w)

\* a 201 for a field with surrounding whitespace whose trimmed text has
\* exactly 1000 characters, one of them a space
C1_Witness ==
    \E w \in Workers :
        /\ Responded(w) /\ ValidPost(w) /\ resp[w].status = 201
        /\ FormGet(req[w].form) # Trimmed(w)
        /\ TextLen(Trimmed(w)) = 1000

\* C2: a POST /api/message whose trimmed new_message is empty (field absent,
\* empty or whitespace only) or longer than 1000 characters is answered with
\* 400; the request persists no row, inserts none and never evaluates
\* mysql.connection.
C2_InvalidRejected ==
    \A w \in Workers :
        Started(w) /\ InvalidPost(w) =>
            /\ Responded(w)
            /\ resp[w].status = 400
            /\ added[w] = <<>>
            /\ pending[w] = <<>>
            /\ acquired[w] = 0

\* one worker has rejected an absent field, the other a text of 1001
\* characters with whitespace inside
C2_Witness ==
    \E v, w \in Workers :
        /\ Responded(v) /\ InvalidPost(v) /\ ~req[v].form.present
        /\ Responded(w) /\ InvalidPost(w) /\ TextLen(Trimmed(w)) = 1001
        /\ Len(Trimmed(w)) > 1

HomeOk(w) == Responded(w) /\ Route(w) = "home" /\ resp[w].status = 200

Listed(w) == resp[w].body.context.messages

\* position of the row with commit number i in the list of worker w
PosOf(w, i) == CHOOSE p \in 1..Len(Listed(w)) : Listed(w)[p].id = i

\* C3 as stated: every successful GET / lists a row committed later before
\* every row committed earlier.
C3_Original ==
    \A w \in Workers :
        HomeOk(w) =>
            \A a, b \in 1..Len(Listed(w)) : a < b => PosOf(w, b) < PosOf(w, a)

\* C3 amended: every successful GET / lists the rows committed before its
\* SELECT ordered by created_at descending: of two rows with different
\* created_at the one with the later created_at comes first, whichever
\* workers handled the requests; rows with equal created_at come in either
\* order, and created_at is the second in which the INSERT ran, not the
\* moment the submission completed.
C3_Amended ==
    \A w \in Workers :
        HomeOk(w) =>
            /\ Len(Listed(w)) <= Len(messages)
            /\ {Listed(w)[p].id : p \in 1..Len(Listed(w))} = 1..Len(Listed(w))
            /\ \A p \in 1..Len(Listed(w)) : messages[Listed(w)[p].id] = Listed(w)[p]
            /\ \A p, q \in 1..Len(Listed(w)) :
                    Listed(w)[p].created_at > Listed(w)[q].created_at => p < q

\* a list of two rows of different seconds, the later one committed first
C3_Witness ==
    \E w \in Workers :
        /\ HomeOk(w)
        /\ Len(Listed(w)) = 2
        /\ Listed(w)[1].created_at > Listed(w)[2].created_at
        /\ Listed(w)[1].id = 1

\* C4: GET /ready answers 503 with status "not_ready" and database
\* "disconnected" when connection acquisition or SELECT 1 failed, and 200
\* with status "ready" and database "connected" otherwise; it answers with
\* no other status.
C4_Ready ==
    \A w \in Workers :
        Responded(w) /\ Route(w) = "readiness_check" =>
            IF fault[w] # ""
            THEN /\ resp[w].status = 503
                 /\ resp[w].body.status = "not_ready"
                 /\ resp[w].body.database = "disconnected"
            ELSE /\ resp[w].status = 200
                 /\ resp[w].body.status = "ready"
                 /\ resp[w].body.database = "connected"
                 /\ acquired[w] = Len(sleeps[w]) + 1

\* one readiness check failed after the retries, another at SELECT 1
C4_Witness ==
    \E v, w \in Workers :
        /\ Responded(v) /\ Route(v) = "readiness_check" /\ fault[v] = "connect"
        /\ Responded(w) /\ Route(w) = "readiness_check" /\ fault[w] = "execute"

\* C5: GET /health answers 200 whatever the state of the store; it never
\* evaluates mysql.connection, never retries and never sleeps.
C5_Health ==
    \A w \in Workers :
        Started(w) /\ Route(w) = "health_check" =>
            /\ Responded(w)
            /\ resp[w].status = 200
            /\ resp[w].body.status = "healthy"
            /\ acquired[w] = 0
            /\ sleeps[w] = <<>>
            /\ elapsed[w] = 0

\* a health check answered while the store is down and the other worker is
\* retrying its connection
C5_Witness ==
    \E v, w \in Workers :
        /\ Responded(w) /\ Route(w) = "health_check" /\ ~dbUp
        /\ pc[v] = "connect" /\ attempt[v] > 0

\* one of the four required settings is unset or empty
InvalidEnviron == \E k \in RequiredNames : environ[k] \in {None, ""}

\* C6: when one of the four required settings is unset or empty, under any
\* profile, the process never initialises the database client, never opens
\* the socket and never accepts a request, and it exits only with status 1.
C6_FailFast ==
    InvalidEnviron =>
        /\ ~mysqlInit
        /\ ~socketOpen
        /\ proc \in {"load_config", "validate", "exited"}
        /\ proc = "exited" => exitCode = 1
        /\ \A w \in Workers : pc[w] = "idle"

\* the testing profile, which sets MYSQL_DB itself, with MYSQL_DB unset and
\* an empty password
C6_Witness ==
    /\ flask_env = "testing"
    /\ environ["MYSQL_DB"] = None
    /\ environ["MYSQL_PASSWORD"] = ""
    /\ environ["MYSQL_HOST"] = "db"
    /\ environ["MYSQL_USER"] = "db"
    /\ appConfig.MYSQL_DB = "test_flask_app"
    /\ proc = "exited"
    /\ exitCode = 1

\* C7 as stated: the delays are a prefix of 2, 4, 8, 16, 32, and once every
\* attempt has failed all five delays have been slept.
C7_Original ==
    \A w \in Workers :
        /\ sleeps[w] = SubSeq(<<2, 4, 8, 16, 32>>, 1, Len(sleeps[w]))
        /\ fault[w] = "connect" => sleeps[w] = <<2, 4, 8, 16, 32>>

\* C7 amended: get_db_connection makes at most 5 attempts, so it retries at
\* most 4 times, sleeping 2s, 4s, 8s, 16s in that order before the retries
\* (no fifth delay of 32s), logs one warning before each retry, returns the
\* handle of the first successful attempt without a further delay, and raises
\* once the fifth attempt has failed.
C7_Amended ==
    \A w \in Workers :
        /\ sleeps[w] = SubSeq(<<2, 4, 8, 16>>, 1, attempt[w])
        /\ attempt[w] <= 4
        /\ acquired[w] <= 5
        /\ warnings[w] = Len(sleeps[w])
        /\ fault[w] = "connect" => acquired[w] = 5 /\ sleeps[w] = <<2, 4, 8, 16>>
        /\ pc[w] \in {"execute", "commit"} => acquired[w] = Len(sleeps[w]) + 1

\* the accessor has raised after its fifth attempt
C7_Witness ==
    \E w \in Workers :
        /\ Responded(w) /\ fault[w] = "connect"
        /\ acquired[w] = 5
        /\ sleeps[w] = <<2, 4, 8, 16>>

SecurityHeaderNames ==
    {"X-Content-Type-Options", "X-Frame-Options", "Strict-Transport-Security",
     "Content-Security-Policy"}

ExpectedHeader(h) ==
    CASE h = "X-Content-Type-Options" -> "nosniff"
      [] h = "X-Frame-Options" -> "DENY"
      [] h = "Strict-Transport-Security" -> "max-age=31536000; includeSubDomains"
      [] h = "Content-Security-Policy" -> "default-src 'self'; script-src 'self' 'unsafe-inline' https://code.jquery.com; style-src 'self' 'unsafe-inline'; img-src 'self' data:; font-src 'self'; connect-src 'self';"

\* C8: every response, of every route and status, carries the four security
\* headers with the same values.
C8_Headers ==
    \A w \in Workers :
        Responded(w) =>
            /\ resp[w].status \in {200, 201, 400, 404, 500, 503}
            /\ \A h \in SecurityHeaderNames :
                    h \in DOMAIN resp[w].headers /\ resp[w].headers[h] = ExpectedHeader(h)

\* a 404 of the error handler next to a 503 of the readiness check
C8_Witness ==
    \E v, w \in Workers :
        /\ Responded(v) /\ resp[v].status = 404
        /\ Responded(w) /\ resp[w].status = 503

\* C9: every step keeps every persisted row, with its content and
\* created_at; the table grows only at the commit of a POST /api/message.
C9_Immutable ==
    [][ /\ Len(messages') >= Len(messages)
        /\ SubSeq(messages', 1, Len(messages)) = messages
        /\ messages' # messages =>
              \E w \in Workers :
                  /\ pc[w] = "commit" /\ Route(w) = "add_message"
                  /\ pc'[w] = "responded" /\ resp'[w].status = 201 ]_vars

\* two rows are persisted, one worker has listed them and the other has
\* answered a readiness check
C9_Witness ==
    \E v, w \in Workers :
        /\ Len(messages) = 2
        /\ HomeOk(v) /\ Len(Listed(v)) = 2
        /\ Responded(w) /\ Route(w) = "readiness_check"

\* C10: a request all of whose connection attempts fail is answered, with
\* 503 by GET /ready and with 500 by GET / and POST /api/message, and its
\* worker is not killed by the 30 second timeout before it has answered.
C10_Answered ==
    \A w \in Workers :
        /\ pc[w] = "killed" => acquired[w] # Len(sleeps[w])
        /\ Responded(w) /\ fault[w] = "connect" =>
                resp[w].status = IF Route(w) = "readiness_check" THEN 503 ELSE 500

====
